---- MODULE Spec2Model ----
(***************************************************************************)
(* Model of rstms/iplsd, package scanner (src/scanner/scanner.go).        *)
(*                                                                         *)
(* The Scanner runs three workers (reaper, scanner = log tail worker,     *)
(* handler = signal worker), two stream readers owned by the log tail     *)
(* worker, the goroutine that calls Run, and a goroutine that may call    *)
(* Stop.  Every goroutine is a process with a program counter; the        *)
(* shutdown coordinator is executed by whichever process calls it.        *)
(*                                                                         *)
(* Files are modelled by their content: the address file is a text (a     *)
(* sequence of tokens, an address or a newline), the timeout directory a  *)
(* function from file name to file content.                               *)
(***************************************************************************)
EXTENDS Integers, Sequences, FiniteSets, TLC

(***************************************************************************)
(* Bounds of the model (the environment's inputs).                        *)
(***************************************************************************)
MaxTime == 1        \* the clock runs 0..MaxTime, one unit = one tick interval
MaxLines == 3       \* lines the tail subprocess writes (both streams together)
MaxStops == 1       \* calls of Stop()
StoreLines == 2     \* lines written while the clock runs (SpecStores)
LiveLines == 2      \* lines written in LiveSignal
SweepTime == 2      \* tick intervals that pass in SpecSweeps
SweepLines == 1     \* lines written in SpecSweeps
NewLines == 3       \* lines of the address file found by NewScanner
StopTwice == 2      \* calls of Stop() in SpecStops
ShapeEmits == 2     \* lines written in SpecShape

(***************************************************************************)
(* Program constants.                                                     *)
(***************************************************************************)
StopCap == 1        \* make(chan struct{}, 1)
ErrCap == 1         \* make(chan error, 1)
LineCap == 1        \* make(chan string, 1)

(***************************************************************************)
(* Configuration: timeout_seconds, in units of the tick interval, the     *)
(* compiled patterns (TRUE: the pattern has a capturing group), and the   *)
(* two hook commands.                                                     *)
(***************************************************************************)
AddressTimeout == 1
Patterns == <<TRUE, FALSE, TRUE>>
AddCommand == "add"
DeleteCommand == "delete"

Workers == {"reaper", "scanner", "handler"}
Readers == {"rdOut", "rdErr"}
Callers == Workers \cup {"stop"}
Procs == {"main", "stop"} \cup Workers \cup Readers
Streams == {"stdout", "stderr"}

A1 == "10.0.0.5"
A2 == "10.0.0.6"
Addrs == {A1, A2}
\* a text that a pattern's group can capture and that is no address, and
\* the file names the timeout directory can hold
Host == "gateway"
Names == Addrs \cup {Host}
NL == "\n"
NoMatch == "nomatch"
Hit == "hit"

\* The lines the followed log file can carry: per configured pattern, what
\* the pattern's first capturing group captures on that line, Hit when a
\* pattern without a group matches, or NoMatch.
LogLines == { <<A1, NoMatch, NoMatch>>, <<A2, Hit, A1>>, <<NoMatch, Hit, NoMatch>> }

VARIABLES
    pc,            \* position of every goroutine
    active,        \* s.active: keys of the sync.Map
    shutdownLock,  \* s.shutdownLock: its holder, or "none"
    tail,          \* s.tail: "nil" or "cmd" (pointer to the exec.Cmd)
    tailProc,      \* the exec.Cmd: none, created, running, exited, killed
    stopChan,      \* reaperStop, scannerStop, handlerStop: buffered items
    stopClosed,    \* ... and whether each was closed
    errChan,       \* reaperErr, scannerErr, handlerErr: buffered results
    errClosed,     \* ... closed by Run
    lineChan,      \* tailStdout, tailStderr: buffered lines
    lineClosed,    \* ... closed by their readers
    pipe,          \* lines written by the subprocess, not yet read
    wg,            \* s.wg counter
    started,       \* s.started
    wret,          \* value returned by each worker function
    ret,           \* Run's ret: [from, err]
    logged,        \* worker errors Run logged instead of returning
    sigPending,    \* SIGINT/SIGTERM delivered to the handler's channels
    tickPending,   \* ticker.C holds a tick
    now,           \* time.Now()
    addressFile,   \* content of s.AddressFile
    timeoutDir,    \* content of the files of s.TimeoutDir
    entries,       \* reaper: directory entries still to scan
    expiredAddrs,  \* reaper: expiredAddrs still to remove
    rAddrs,        \* reaper: addrs read by removeAddress
    stdoutOpen,    \* scanner: loop flags
    stderrOpen,
    sLine,         \* scanner: the line being matched
    sIdx,          \* scanner: index of the pattern being tried
    sAddrs,        \* scanner: addrs read by addAddress
    panicked,      \* the runtime panic that ended the process, or "none"
    teardowns,     \* history: callers that ran the teardown body
    killedBy,      \* history: callers that killed the subprocess
    sent,          \* history: per stop channel, the callers that sent on it
    stopCalls,     \* history: calls of Stop so far
    emitted,       \* history: lines written by the subprocess so far
    wrote,         \* history: per address, instant of the scanner's last
                   \* writeTimeoutFile for the current line, or -1
    reaped,        \* history: the reaper rewrote the address file or deleted
                   \* a timeout file since the scanner took its current line
    gotSignal,     \* history: the handler received SIGINT or SIGTERM
    early,         \* history: a worker function returned before Start had
                   \* completed
    atTick,        \* history: at the reaper's last tick, the addresses whose
                   \* record was due and those listed without a record
    touched        \* history: the scanner wrote a timeout file or the
                   \* address file since the reaper's last tick (cleared
                   \* when the sweep ends)

coordVars == <<active, shutdownLock, tail, tailProc>>
chanVars == <<stopChan, stopClosed, errChan, errClosed, lineChan, lineClosed, pipe>>
runVars == <<wg, started, wret, early, ret, logged>>
envVars == <<sigPending, tickPending, now, gotSignal>>
storeVars == <<addressFile, timeoutDir, reaped, touched>>
reaperVars == <<entries, expiredAddrs, rAddrs, atTick>>
scanVars == <<stdoutOpen, stderrOpen, sLine, sIdx, sAddrs, wrote>>
histVars == <<teardowns, killedBy, sent, stopCalls, emitted>>
vars == <<pc, coordVars, chanVars, runVars, envVars, storeVars, reaperVars,
          scanVars, histVars, panicked>>

(***************************************************************************)
(* Pure functions of the two stores.                                      *)
(***************************************************************************)
\* IP_PATTERN.MatchString on one token
IPShape(tok) == tok \in Addrs

\* strings.Join(addrs, "\n")
RECURSIVE Join(_)
Join(addrs) ==
    IF addrs = <<>> THEN <<>>
    ELSE IF Len(addrs) = 1 THEN <<addrs[1]>>
    ELSE <<addrs[1], NL>> \o Join(Tail(addrs))

\* []byte(strings.Join(addrs, "\n") + "\n")
FileText(addrs) == Join(addrs) \o <<NL>>

\* bufio.Scanner with the default split function: the lines of a text; a
\* last line without a newline is a line when it is not empty
RECURSIVE ScanLines(_, _)
ScanLines(text, cur) ==
    IF text = <<>> THEN (IF cur = <<>> THEN <<>> ELSE <<cur>>)
    ELSE IF Head(text) = NL THEN <<cur>> \o ScanLines(Tail(text), <<>>)
    ELSE ScanLines(Tail(text), Append(cur, Head(text)))

\* the loop of readAddressFile over the scanned lines
RECURSIVE ReadLines(_, _)
ReadLines(lines, addrs) ==
    IF lines = <<>> THEN [err |-> FALSE, addrs |-> addrs]
    ELSE IF Head(lines) = <<>> THEN ReadLines(Tail(lines), addrs)
    ELSE IF IPShape(Head(lines)[1])
         THEN ReadLines(Tail(lines), Append(addrs, Head(lines)[1]))
    ELSE [err |-> TRUE, addrs |-> <<>>]

\* a reader that skips the lines that are not addresses
readAddressFileLenient(text) ==
    LET good == SelectSeq(ScanLines(text, <<>>),
                          LAMBDA l : l # <<>> /\ IPShape(l[1]))
    IN  [err |-> FALSE, addrs |-> [i \in 1..Len(good) |-> good[i][1]]]

readAddressFile(text) == ReadLines(ScanLines(text, <<>>), <<>>)

\* a search that finds nothing
ContainsNever(addrs, a) == FALSE

\* slices.Contains, slices.Index, slices.Delete(addrs, i, i+1)
Contains(addrs, a) == \E i \in 1..Len(addrs) : addrs[i] = a
Index(addrs, a) == CHOOSE i \in 1..Len(addrs) :
                      addrs[i] = a /\ \A j \in 1..(i - 1) : addrs[j] # a
DeleteAt(addrs, i) == SubSeq(addrs, 1, i - 1) \o SubSeq(addrs, i + 1, Len(addrs))

\* content of a file of the timeout directory
NoFile == [k |-> "absent", t |-> 0]
Garbage == [k |-> "garbage", t |-> 0]
\* expiration.MarshalText()
MarshalText(t) == [k |-> "rfc3339", t |-> t]

\* a parser that takes any content for a timestamp
UnmarshalTextLenient(data) == [err |-> FALSE, t |-> data.t]

\* expiration.UnmarshalText(timeData)
UnmarshalText(data) == [err |-> data.k # "rfc3339", t |-> data.t]

\* a record that holds the instant of the write, not the expiration
writeTimeoutFileNow(dir, addr, t) ==
    [dir EXCEPT ![addr] = MarshalText(t)]

\* expiration := time.Now().Add(s.AddressTimeout); os.WriteFile(filename, data)
writeTimeoutFile(dir, addr, t) ==
    [dir EXCEPT ![addr] = MarshalText(t + AddressTimeout)]

\* os.ReadDir: the regular files of the directory, sorted by file name
NameOrder == <<A1, A2, Host>>
ReadDir(dir) == SelectSeq(NameOrder, LAMBDA n : dir[n] # NoFile)

\* a comparison that spares a record at the instant it expires
ExpiredStrict(t, expiration) == t > expiration

\* time.Now().Compare(expiration) >= 0
Expired(t, expiration) == t >= expiration

\* a is listed in the address file
Listed(file, a) == Contains(readAddressFile(file).addrs, a)

\* the addresses whose record holds an expiration not later than t, and
\* the addresses listed without a record
Due(dir, t) ==
    { a \in Addrs : dir[a].k = "rfc3339" /\ dir[a].t <= t }
Orphans(file, dir) == { a \in Addrs : Listed(file, a) /\ dir[a] = NoFile }

\* the address file before NewScanner has created it
NoAddressFile == <<"ENOENT">>

\* a test that finds no timeout file
IsFileNever(dir, addr) == FALSE

\* IsFile(filepath.Join(TimeoutDir, addr))
IsFile(dir, addr) == dir[addr] # NoFile

\* for _, addr := range addrs { if !IsFile(...) { s.writeTimeoutFile(addr) } }
RECURSIVE SynthesizeRecords(_, _, _)
SynthesizeRecords(addrs, dir, t) ==
    IF addrs = <<>> THEN dir
    ELSE SynthesizeRecords(Tail(addrs),
                           IF ~IsFile(dir, Head(addrs))
                             THEN writeTimeoutFile(dir, Head(addrs), t)
                             ELSE dir,
                           t)

\* NewScanner on the two stores at instant t: the address file is created
\* empty when it is missing, then read; a read error ends construction
\* before any record is written
NewScanner(file, dir, t) ==
    LET text == IF file = NoAddressFile THEN <<>> ELSE file
        read == readAddressFile(text)
    IN  IF read.err THEN [err |-> TRUE, file |-> text, dir |-> dir]
        ELSE [err |-> FALSE, file |-> text,
              dir |-> SynthesizeRecords(read.addrs, dir, t)]

\* pattern.FindStringSubmatch(line): nil, or the whole match followed by
\* the capturing groups
FindStringSubmatch(i, line) ==
    IF line[i] = NoMatch THEN <<>>
    ELSE IF Patterns[i] THEN <<"match", line[i]>>
    ELSE <<"match">>

\* a loop that handles the first pattern of the list only
NextMatchFirstOnly(i, line) ==
    IF i = 1 /\ Len(FindStringSubmatch(1, line)) > 1 THEN 1 ELSE 0

\* the first pattern index >= i whose match has a group, or 0
NextMatch(i, line) ==
    LET hits == { j \in i..Len(Patterns) : Len(FindStringSubmatch(j, line)) > 1 }
    IN  IF hits = {} THEN 0 ELSE CHOOSE j \in hits : \A h \in hits : j <= h

(***************************************************************************)
(* Initial state: NewScanner has returned, Run has not been called.  The  *)
(* stores are as construction leaves them: every listed address has a     *)
(* record, one that construction synthesized or an older one.             *)
(***************************************************************************)
EmptyDir == [n \in Names |-> NoFile]
InitStores ==
    { [file |-> FileText(<<A1>>), dir |-> [EmptyDir EXCEPT ![A1] = MarshalText(AddressTimeout)]] }

NoWrites == [a \in Names |-> -1]
NoTick == [due |-> {}, orphans |-> {}]
NilRet == [from |-> "none", err |-> "nil"]

\* the state with the caller at main and the stores one of stores
InitWith(main, stores) ==
    /\ pc = [p \in Procs |-> IF p = "main" THEN main ELSE "idle"]
    /\ active = {}
    /\ shutdownLock = "none"
    /\ tail = "nil"
    /\ tailProc = "none"
    /\ stopChan = [w \in Workers |-> 0]
    /\ stopClosed = [w \in Workers |-> FALSE]
    /\ errChan = [w \in Workers |-> <<>>]
    /\ errClosed = FALSE
    /\ lineChan = [s \in Streams |-> 0]
    /\ lineClosed = [s \in Streams |-> FALSE]
    /\ pipe = [s \in Streams |-> 0]
    /\ wg = 0
    /\ started = FALSE
    /\ wret = [w \in Workers |-> "nil"]
    /\ ret = NilRet
    /\ logged = {}
    /\ sigPending = FALSE
    /\ tickPending = FALSE
    /\ now = 0
    /\ \E st \in stores : addressFile = st.file /\ timeoutDir = st.dir
    /\ entries = <<>>
    /\ expiredAddrs = <<>>
    /\ rAddrs = <<>>
    /\ stdoutOpen = TRUE
    /\ stderrOpen = TRUE
    /\ sLine = <<>>
    /\ sIdx = 0
    /\ sAddrs = <<>>
    /\ panicked = "none"
    /\ teardowns = <<>>
    /\ killedBy = <<>>
    /\ sent = [w \in Workers |-> <<>>]
    /\ stopCalls = 0
    /\ emitted = 0
    /\ wrote = NoWrites
    /\ reaped = FALSE
    /\ gotSignal = FALSE
    /\ early = FALSE
    /\ atTick = NoTick
    /\ touched = FALSE

Init == InitWith("go_reaper", InitStores)

(***************************************************************************)
(* Program counters of the shutdown coordinator, run by its caller.       *)
(***************************************************************************)
LdPc(w) == CASE w = "reaper" -> "sh_ld_reaper"
             [] w = "scanner" -> "sh_ld_scanner"
             [] w = "handler" -> "sh_ld_handler"
SndPc(w) == CASE w = "reaper" -> "sh_snd_reaper"
              [] w = "scanner" -> "sh_snd_scanner"
              [] w = "handler" -> "sh_snd_handler"
\* a teardown that starts its round of notifications again after the last
AfterNotifyAgain(w) == CASE w = "reaper" -> LdPc("scanner")
                         [] w = "scanner" -> LdPc("handler")
                         [] w = "handler" -> LdPc("reaper")

\* shutdown notifies the reaper, then the scanner, then the handler
AfterNotify(w) == CASE w = "reaper" -> LdPc("scanner")
                    [] w = "scanner" -> LdPc("handler")
                    [] w = "handler" -> "sh_unlock"
\* where shutdown's caller continues
AfterShutdown(c) == IF c = "stop" THEN "close" ELSE "finish"

Alive == panicked = "none"

\* a worker function returns err: its deferred function runs next
Return(w, err) ==
    /\ pc' = [pc EXCEPT ![w] = "deregister"]
    /\ wret' = [wret EXCEPT ![w] = err]
    /\ early' = (early \/ ~started)

(***************************************************************************)
(* shutdown(caller)                                                       *)
(***************************************************************************)
\* the idempotency marker: s.active.Load("shutdown")
\* the marker looked up under a key nobody stores
AlreadyShutdownOtherKey == "Shutdown" \in active

AlreadyShutdown == "shutdown" \in active

\* a check that never finds a process to kill
HasProcessNever == FALSE

\* s.tail.Process != nil
HasProcess == tailProc \in {"running", "exited"}

\* A later caller: Lock(), the marker is found, return, the deferred Unlock().
ShutdownNoop(c) ==
    /\ Alive
    /\ pc[c] = "sh_lock"
    /\ shutdownLock = "none"
    /\ AlreadyShutdown
    /\ pc' = [pc EXCEPT ![c] = AfterShutdown(c)]
    /\ UNCHANGED <<coordVars, chanVars, runVars, envVars, storeVars,
                   reaperVars, scanVars, histVars, panicked>>

\* The first caller: Lock(), the marker is stored, and the teardown body
\* starts: if s.tail != nil && s.tail.Process != nil { Kill(); Wait() }
ShutdownEnter(c) ==
    /\ Alive
    /\ pc[c] = "sh_lock"
    /\ shutdownLock = "none"
    /\ ~AlreadyShutdown
    /\ shutdownLock' = c
    /\ active' = active \cup {"shutdown"}
    /\ teardowns' = Append(teardowns, c)
    /\ IF tail = "nil"
         THEN /\ pc' = [pc EXCEPT ![c] = LdPc("reaper")]
              /\ UNCHANGED <<tailProc, killedBy>>
         ELSE /\ pc' = [pc EXCEPT ![c] = "sh_nil"]
              /\ IF HasProcess
                   THEN /\ tailProc' = IF tailProc = "running" THEN "killed" ELSE "waited"
                        /\ killedBy' = Append(killedBy, c)
                   ELSE UNCHANGED <<tailProc, killedBy>>
    /\ UNCHANGED <<tail, chanVars, runVars, envVars, storeVars, reaperVars,
                   scanVars, sent, stopCalls, emitted, panicked>>

\* s.tail = nil
ShutdownTailNil(c) ==
    /\ Alive
    /\ pc[c] = "sh_nil"
    /\ tail' = "nil"
    /\ pc' = [pc EXCEPT ![c] = LdPc("reaper")]
    /\ UNCHANGED <<active, shutdownLock, tailProc, chanVars, runVars, envVars,
                   storeVars, reaperVars, scanVars, histVars, panicked>>

\* _, ok = s.active.Load(w)
ShutdownLoad(c, w) ==
    /\ Alive
    /\ pc[c] = LdPc(w)
    /\ pc' = [pc EXCEPT ![c] = IF w \in active THEN SndPc(w) ELSE AfterNotify(w)]
    /\ UNCHANGED <<coordVars, chanVars, runVars, envVars, storeVars,
                   reaperVars, scanVars, histVars, panicked>>

\* s.reaperStop <- struct{}{} (and the scanner's and the handler's): a send
\* on a closed channel panics, a send on a full channel blocks
\* a teardown that passes a worker by without the send
ShutdownSendSkipped(c, w) ==
    /\ Alive
    /\ pc[c] = SndPc(w)
    /\ pc' = [pc EXCEPT ![c] = AfterNotify(w)]
    /\ UNCHANGED <<coordVars, chanVars, runVars, envVars, storeVars,
                   reaperVars, scanVars, histVars, panicked>>

ShutdownSend(c, w) ==
    /\ Alive
    /\ pc[c] = SndPc(w)
    /\ IF stopClosed[w]
         THEN /\ panicked' = "send on closed stop channel"
              /\ UNCHANGED <<pc, stopChan, sent>>
         ELSE /\ stopChan[w] < StopCap
              /\ stopChan' = [stopChan EXCEPT ![w] = @ + 1]
              /\ sent' = [sent EXCEPT ![w] = Append(@, c)]
              /\ pc' = [pc EXCEPT ![c] = AfterNotify(w)]
              /\ UNCHANGED panicked
    /\ UNCHANGED <<coordVars, stopClosed, errChan, errClosed, lineChan,
                   lineClosed, pipe, runVars, envVars, storeVars, reaperVars,
                   scanVars, teardowns, killedBy, stopCalls, emitted>>

\* the deferred s.shutdownLock.Unlock()
ShutdownExit(c) ==
    /\ Alive
    /\ pc[c] = "sh_unlock"
    /\ shutdownLock' = "none"
    /\ pc' = [pc EXCEPT ![c] = AfterShutdown(c)]
    /\ UNCHANGED <<active, tail, tailProc, chanVars, runVars, envVars,
                   storeVars, reaperVars, scanVars, histVars, panicked>>

shutdown(c) ==
    \/ ShutdownNoop(c)
    \/ ShutdownEnter(c)
    \/ ShutdownTailNil(c)
    \/ \E w \in Workers : ShutdownLoad(c, w)
    \/ \E w \in Workers : ShutdownSend(c, w)
    \/ ShutdownExit(c)

(***************************************************************************)
(* Stop()                                                                 *)
(***************************************************************************)
\* Stop() is called, for at most the max-th time: s.shutdown("stop") first
StopCallUpTo(max) ==
    /\ Alive
    /\ pc["stop"] = "idle"
    /\ stopCalls < max
    /\ stopCalls' = stopCalls + 1
    /\ pc' = [pc EXCEPT !["stop"] = "sh_lock"]
    /\ UNCHANGED <<coordVars, chanVars, runVars, envVars, storeVars,
                   reaperVars, scanVars, teardowns, killedBy, sent, emitted,
                   panicked>>

\* Stop that closes the channels without calling shutdown first
StopCallCloseFirst ==
    /\ Alive
    /\ pc["stop"] = "idle"
    /\ stopCalls < MaxStops
    /\ stopCalls' = stopCalls + 1
    /\ pc' = [pc EXCEPT !["stop"] = "close"]
    /\ UNCHANGED <<coordVars, chanVars, runVars, envVars, storeVars,
                   reaperVars, scanVars, teardowns, killedBy, sent, emitted,
                   panicked>>

\* some goroutine calls Stop()
StopCall == StopCallUpTo(MaxStops)

\* close(s.reaperStop); close(s.scannerStop); close(s.handlerStop): closing
\* a closed channel panics, and the first close is the first to do so
StopClose ==
    /\ Alive
    /\ pc["stop"] = "close"
    /\ IF \E w \in Workers : stopClosed[w]
         THEN /\ panicked' = "close of closed channel"
              /\ UNCHANGED <<pc, stopClosed>>
         ELSE /\ stopClosed' = [w \in Workers |-> TRUE]
              /\ pc' = [pc EXCEPT !["stop"] = "idle"]
              /\ UNCHANGED panicked
    /\ UNCHANGED <<coordVars, stopChan, errChan, errClosed, lineChan,
                   lineClosed, pipe, runVars, envVars, storeVars, reaperVars,
                   scanVars, histVars>>

Stop ==
    \/ StopCall
    \/ shutdown("stop")
    \/ StopClose

(***************************************************************************)
(* The goroutine around each worker function (Start):                     *)
(*   s.wg.Add(1); defer s.wg.Done(); s.reaperErr <- s.reaper(started)     *)
(* and the prologue and deferred epilogue every worker function has.      *)
(***************************************************************************)
WaitPc(w) == CASE w = "reaper" -> "wait_reaper"
               [] w = "scanner" -> "wait_scanner"
               [] w = "handler" -> "wait_handler"
AfterWait(w) == CASE w = "reaper" -> "go_scanner"
                  [] w = "scanner" -> "go_handler"
                  [] w = "handler" -> "set_started"

\* s.wg.Add(1), first statement of a reader's goroutine
WgAdd(r) ==
    /\ Alive
    /\ pc[r] = "wg_add"
    /\ wg' = wg + 1
    /\ pc' = [pc EXCEPT ![r] = "read"]
    /\ UNCHANGED <<coordVars, chanVars, started, wret, early, ret, logged, envVars,
                   storeVars, reaperVars, scanVars, histVars, panicked>>

\* s.wg.Add(1), first statement of a worker's goroutine, and the worker
\* function's s.active.Store(w, true)
Register(w) ==
    /\ Alive
    /\ pc[w] = "register"
    /\ wg' = wg + 1
    /\ active' = active \cup {w}
    /\ pc' = [pc EXCEPT ![w] = IF w = "scanner" THEN "s_command" ELSE "started"]
    /\ UNCHANGED <<shutdownLock, tail, tailProc, chanVars, started, wret, early, ret,
                   logged, envVars, storeVars, reaperVars, scanVars, histVars,
                   panicked>>

\* startChan <- struct{}{} meets Start's receive (the channel is unbuffered)
Started(w) ==
    /\ Alive
    /\ pc[w] = "started"
    /\ pc["main"] = WaitPc(w)
    /\ pc' = [pc EXCEPT ![w] = "select", !["main"] = AfterWait(w)]
    /\ UNCHANGED <<coordVars, chanVars, runVars, envVars, storeVars,
                   reaperVars, scanVars, histVars, panicked>>

\* deferred: s.active.Delete(w), then s.shutdown(w)
Deregister(w) ==
    /\ Alive
    /\ pc[w] = "deregister"
    /\ active' = active \ {w}
    /\ pc' = [pc EXCEPT ![w] = "sh_lock"]
    /\ UNCHANGED <<shutdownLock, tail, tailProc, chanVars, runVars, envVars,
                   storeVars, reaperVars, scanVars, histVars, panicked>>

\* s.reaperErr <- (the worker's result), then the deferred s.wg.Done()
Finish(w) ==
    /\ Alive
    /\ pc[w] = "finish"
    /\ IF errClosed
         THEN /\ panicked' = "send on closed result channel"
              /\ UNCHANGED <<pc, errChan, wg>>
         ELSE /\ Len(errChan[w]) < ErrCap
              /\ errChan' = [errChan EXCEPT ![w] = Append(@, wret[w])]
              /\ wg' = wg - 1
              /\ pc' = [pc EXCEPT ![w] = "done"]
              /\ UNCHANGED panicked
    /\ UNCHANGED <<coordVars, stopChan, stopClosed, errClosed, lineChan,
                   lineClosed, pipe, started, wret, early, ret, logged, envVars,
                   storeVars, reaperVars, scanVars, histVars>>

(***************************************************************************)
(* reaper                                                                 *)
(***************************************************************************)
\* the ticker exists from time.NewTicker to the deferred ticker.Stop()
TickerLive == pc["reaper"] \in {"started", "select", "r_scan", "r_remove",
                                "r_write", "r_delete"}

\* a reaper that also looks at its stop channel between two removals
ReaperStopMidSweep ==
    /\ Alive
    /\ pc["reaper"] \in {"select", "r_remove"}
    /\ stopChan["reaper"] > 0 \/ stopClosed["reaper"]
    /\ stopChan' = [stopChan EXCEPT !["reaper"] = IF @ > 0 THEN @ - 1 ELSE @]
    /\ Return("reaper", "nil")
    /\ UNCHANGED <<coordVars, stopClosed, errChan, errClosed, lineChan,
                   lineClosed, pipe, wg, started, ret, logged, envVars,
                   storeVars, reaperVars, scanVars, histVars, panicked>>

\* case _, ok := <-s.reaperStop: a stop item or the closed channel
ReaperStop ==
    /\ Alive
    /\ pc["reaper"] = "select"
    /\ stopChan["reaper"] > 0 \/ stopClosed["reaper"]
    /\ stopChan' = [stopChan EXCEPT !["reaper"] = IF @ > 0 THEN @ - 1 ELSE @]
    /\ Return("reaper", "nil")
    /\ UNCHANGED <<coordVars, stopClosed, errChan, errClosed, lineChan,
                   lineClosed, pipe, wg, started, ret, logged, envVars,
                   storeVars, reaperVars, scanVars, histVars, panicked>>

\* case <-ticker.C: entries, err := os.ReadDir(s.TimeoutDir)
ReaperTick ==
    /\ Alive
    /\ pc["reaper"] = "select"
    /\ tickPending
    /\ tickPending' = FALSE
    /\ entries' = ReadDir(timeoutDir)
    /\ expiredAddrs' = <<>>
    /\ atTick' = [due |-> Due(timeoutDir, now),
                  orphans |-> Orphans(addressFile, timeoutDir)]
    /\ touched' = FALSE
    /\ pc' = [pc EXCEPT !["reaper"] = "r_scan"]
    /\ UNCHANGED <<coordVars, chanVars, runVars, sigPending, now, gotSignal,
                   addressFile, timeoutDir, reaped, rAddrs, scanVars,
                   histVars, panicked>>

\* one round of the loop over entries: read the file, parse it, compare
ReaperScan ==
    /\ Alive
    /\ pc["reaper"] = "r_scan"
    /\ IF entries = <<>>
         THEN /\ pc' = [pc EXCEPT !["reaper"] =
                           IF expiredAddrs = <<>> THEN "select" ELSE "r_remove"]
              /\ atTick' = IF expiredAddrs = <<>> THEN NoTick ELSE atTick
              /\ touched' = IF expiredAddrs = <<>> THEN FALSE ELSE touched
              /\ UNCHANGED <<entries, expiredAddrs, wret, early>>
         ELSE LET addr == Head(entries)
                  timeData == timeoutDir[addr]
                  parsed == UnmarshalText(timeData)
              IN  IF timeData = NoFile
                    THEN Return("reaper", "io")
                         /\ UNCHANGED <<entries, expiredAddrs, atTick, touched>>
                  ELSE IF parsed.err
                    THEN Return("reaper", "corrupt")
                         /\ UNCHANGED <<entries, expiredAddrs, atTick, touched>>
                  ELSE /\ entries' = Tail(entries)
                       /\ expiredAddrs' = IF Expired(now, parsed.t)
                                            THEN Append(expiredAddrs, addr)
                                            ELSE expiredAddrs
                       /\ UNCHANGED <<pc, wret, early, atTick, touched>>
    /\ UNCHANGED <<coordVars, chanVars, wg, started, ret, logged, envVars,
                   addressFile, timeoutDir, reaped, rAddrs, scanVars,
                   histVars, panicked>>

\* the results an external hook command can have; no command, no failure
HookResults(command) == IF command = "" THEN {TRUE} ELSE BOOLEAN

\* removeAddress, first half: the delete hook, then readAddressFile
ReaperRemove ==
    /\ Alive
    /\ pc["reaper"] = "r_remove"
    /\ \E ok \in HookResults(DeleteCommand) :
          LET read == readAddressFile(addressFile)
          IN  IF ~ok THEN Return("reaper", "hook") /\ UNCHANGED rAddrs
              ELSE IF read.err THEN Return("reaper", "corrupt") /\ UNCHANGED rAddrs
              ELSE /\ rAddrs' = read.addrs
                   /\ pc' = [pc EXCEPT !["reaper"] = "r_write"]
                   /\ UNCHANGED <<wret, early>>
    /\ UNCHANGED <<coordVars, chanVars, wg, started, ret, logged, envVars,
                   storeVars, entries, expiredAddrs, atTick, scanVars,
                   histVars, panicked>>

\* a removeAddress that rewrites the file whether or not the address is there
removeAddressRewrites(file, addrs, addr) ==
    FileText(IF Contains(addrs, addr) THEN DeleteAt(addrs, Index(addrs, addr)) ELSE addrs)

\* what removeAddress writes back, given the addresses it read
removeAddress(file, addrs, addr) ==
    IF ~Contains(addrs, addr) THEN file
    ELSE FileText(DeleteAt(addrs, Index(addrs, addr)))

\* removeAddress, second half: the address is deleted and the file rewritten
ReaperWrite ==
    /\ Alive
    /\ pc["reaper"] = "r_write"
    /\ addressFile' = removeAddress(addressFile, rAddrs, Head(expiredAddrs))
    /\ rAddrs' = <<>>
    /\ reaped' = TRUE
    /\ pc' = [pc EXCEPT !["reaper"] = "r_delete"]
    /\ UNCHANGED <<coordVars, chanVars, runVars, envVars, timeoutDir, touched,
                   entries, expiredAddrs, atTick, scanVars, histVars,
                   panicked>>

\* deleteTimeoutFile: os.Remove fails when the file is not there
ReaperDelete ==
    /\ Alive
    /\ pc["reaper"] = "r_delete"
    /\ LET addr == Head(expiredAddrs)
       IN  IF timeoutDir[addr] = NoFile
             THEN Return("reaper", "io")
                  /\ UNCHANGED <<timeoutDir, expiredAddrs, reaped, atTick, touched>>
             ELSE /\ timeoutDir' = [timeoutDir EXCEPT ![addr] = NoFile]
                  /\ reaped' = TRUE
                  /\ atTick' = IF Tail(expiredAddrs) = <<>> THEN NoTick ELSE atTick
                  /\ touched' = IF Tail(expiredAddrs) = <<>> THEN FALSE ELSE touched
                  /\ expiredAddrs' = Tail(expiredAddrs)
                  /\ pc' = [pc EXCEPT !["reaper"] =
                               IF Tail(expiredAddrs) = <<>> THEN "select" ELSE "r_remove"]
                  /\ UNCHANGED <<wret, early>>
    /\ UNCHANGED <<coordVars, chanVars, wg, started, ret, logged, envVars,
                   addressFile, entries, rAddrs, scanVars, histVars, panicked>>

\* the worker without its sweep, and the sweep
reaperWorker ==
    \/ Register("reaper") \/ Started("reaper")
    \/ ReaperStop
    \/ Deregister("reaper") \/ shutdown("reaper")
    \/ Finish("reaper")

reaperSweep ==
    \/ ReaperTick \/ ReaperScan
    \/ ReaperRemove \/ ReaperWrite \/ ReaperDelete

reaper == reaperWorker \/ reaperSweep

(***************************************************************************)
(* handler                                                                *)
(***************************************************************************)
\* case <-sigint / case <-sigterm
HandlerSignal ==
    /\ Alive
    /\ pc["handler"] = "select"
    /\ sigPending
    /\ sigPending' = FALSE
    /\ gotSignal' = TRUE
    /\ Return("handler", "nil")
    /\ UNCHANGED <<coordVars, chanVars, wg, started, ret, logged, tickPending,
                   now, storeVars, reaperVars, scanVars, histVars, panicked>>

\* case _, ok := <-s.handlerStop
HandlerStop ==
    /\ Alive
    /\ pc["handler"] = "select"
    /\ stopChan["handler"] > 0 \/ stopClosed["handler"]
    /\ stopChan' = [stopChan EXCEPT !["handler"] = IF @ > 0 THEN @ - 1 ELSE @]
    /\ Return("handler", "nil")
    /\ UNCHANGED <<coordVars, stopClosed, errChan, errClosed, lineChan,
                   lineClosed, pipe, wg, started, ret, logged, envVars,
                   storeVars, reaperVars, scanVars, histVars, panicked>>

\* the worker without the signals it may receive
handlerWorker ==
    \/ Register("handler") \/ Started("handler")
    \/ HandlerStop
    \/ Deregister("handler") \/ shutdown("handler")
    \/ Finish("handler")

handler == handlerWorker \/ HandlerSignal

(***************************************************************************)
(* scanner (the log tail worker) and its two stream readers               *)
(***************************************************************************)
StreamOf(r) == IF r = "rdOut" THEN "stdout" ELSE "stderr"

\* s.tail = exec.Command("tail", "-f", s.LogFile)
ScannerCommand ==
    /\ Alive
    /\ pc["scanner"] = "s_command"
    /\ tail' = "cmd"
    /\ tailProc' = "created"
    /\ pc' = [pc EXCEPT !["scanner"] = "s_pipes"]
    /\ UNCHANGED <<active, shutdownLock, chanVars, runVars, envVars, storeVars,
                   reaperVars, scanVars, histVars, panicked>>

\* s.tail.StdoutPipe(); s.tail.StderrPipe(): s.tail is read again
ScannerPipes ==
    /\ Alive
    /\ pc["scanner"] = "s_pipes"
    /\ IF tail = "nil"
         THEN panicked' = "nil pointer dereference" /\ UNCHANGED pc
         ELSE pc' = [pc EXCEPT !["scanner"] = "s_start"] /\ UNCHANGED panicked
    /\ UNCHANGED <<coordVars, chanVars, runVars, envVars, storeVars,
                   reaperVars, scanVars, histVars>>

\* err = s.tail.Start(): the spawn fails, or the subprocess runs and the two
\* go statements start the stream readers
ScannerStart ==
    /\ Alive
    /\ pc["scanner"] = "s_start"
    /\ IF tail = "nil"
         THEN panicked' = "nil pointer dereference" /\ UNCHANGED <<pc, tailProc, wret, early>>
         ELSE /\ UNCHANGED panicked
              /\ \E ok \in BOOLEAN :
                    IF ok THEN /\ tailProc' = "running"
                               /\ pc' = [pc EXCEPT !["scanner"] = "started",
                                                   !["rdOut"] = "wg_add",
                                                   !["rdErr"] = "wg_add"]
                               /\ UNCHANGED <<wret, early>>
                    ELSE Return("scanner", "spawn") /\ UNCHANGED tailProc
    /\ UNCHANGED <<active, shutdownLock, tail, chanVars, wg, started, ret,
                   logged, envVars, storeVars, reaperVars, scanVars, histVars>>

SubprocessGone == tailProc \in {"exited", "waited", "killed"}

\* Wait() has returned: it closed the pipes the readers read
PipesClosed == tailProc \in {"waited", "killed"}

\* the subprocess ended by itself, not by shutdown's Kill()
ExitedAlone == tailProc \in {"exited", "waited"}

\* reader.ReadString('\n') yields a line of the pipe
ReaderRead(r) ==
    /\ Alive
    /\ pc[r] = "read"
    /\ pipe[StreamOf(r)] > 0
    /\ pipe' = [pipe EXCEPT ![StreamOf(r)] = @ - 1]
    /\ pc' = [pc EXCEPT ![r] = "send"]
    /\ UNCHANGED <<coordVars, stopChan, stopClosed, errChan, errClosed,
                   lineChan, lineClosed, runVars, envVars, storeVars,
                   reaperVars, scanVars, histVars, panicked>>

\* s.tailStdout <- line, which blocks while the channel is full
ReaderSend(r) ==
    /\ Alive
    /\ pc[r] = "send"
    /\ lineChan[StreamOf(r)] < LineCap
    /\ lineChan' = [lineChan EXCEPT ![StreamOf(r)] = @ + 1]
    /\ pc' = [pc EXCEPT ![r] = "read"]
    /\ UNCHANGED <<coordVars, stopChan, stopClosed, errChan, errClosed,
                   lineClosed, pipe, runVars, envVars, storeVars, reaperVars,
                   scanVars, histVars, panicked>>

\* reader.ReadString fails: the subprocess is gone and the pipe is empty,
\* or shutdown's Wait() has closed the pipe with what it still held; return,
\* and the deferred close(s.tailStdout) and s.wg.Done() run
ReaderEOF(r) ==
    /\ Alive
    /\ pc[r] = "read"
    /\ SubprocessGone
    /\ pipe[StreamOf(r)] = 0 \/ PipesClosed
    /\ pipe' = [pipe EXCEPT ![StreamOf(r)] = 0]
    /\ lineClosed' = [lineClosed EXCEPT ![StreamOf(r)] = TRUE]
    /\ wg' = wg - 1
    /\ pc' = [pc EXCEPT ![r] = "done"]
    /\ UNCHANGED <<coordVars, stopChan, stopClosed, errChan, errClosed,
                   lineChan, started, wret, early, ret, logged, envVars,
                   storeVars, reaperVars, scanVars, histVars, panicked>>

\* the forwarding of a line
ReaderLine(r) == ReaderRead(r) \/ ReaderSend(r)

reader(r) == WgAdd(r) \/ ReaderLine(r) \/ ReaderEOF(r)

\* a reader without the lines it forwards
readerWorker(r) == WgAdd(r) \/ ReaderEOF(r)

\* for stderrOpen || stdoutOpen: the loop ends, the worker returns nil
ScannerLoopEnd ==
    /\ Alive
    /\ pc["scanner"] = "select"
    /\ ~(stderrOpen \/ stdoutOpen)
    /\ Return("scanner", "nil")
    /\ UNCHANGED <<coordVars, chanVars, wg, started, ret, logged, envVars,
                   storeVars, reaperVars, scanVars, histVars, panicked>>

\* case line, ok := <-s.tailStdout, a line, one of lines: the loop over
\* s.Patterns starts
ScannerLineFrom(lines) ==
    /\ Alive
    /\ pc["scanner"] = "select"
    /\ stderrOpen \/ stdoutOpen
    /\ lineChan["stdout"] > 0
    /\ lineChan' = [lineChan EXCEPT !["stdout"] = @ - 1]
    /\ \E line \in lines : sLine' = line
    /\ sIdx' = 1
    /\ wrote' = NoWrites
    /\ reaped' = FALSE
    /\ pc' = [pc EXCEPT !["scanner"] = "s_match"]
    /\ UNCHANGED <<coordVars, stopChan, stopClosed, errChan, errClosed,
                   lineClosed, pipe, runVars, envVars, addressFile, timeoutDir,
                   touched, reaperVars,
                   stdoutOpen, stderrOpen, sAddrs, histVars, panicked>>

ScannerLine == ScannerLineFrom(LogLines)

\* case line, ok := <-s.tailStderr, a line: it is logged
ScannerErrLine ==
    /\ Alive
    /\ pc["scanner"] = "select"
    /\ stderrOpen \/ stdoutOpen
    /\ lineChan["stderr"] > 0
    /\ lineChan' = [lineChan EXCEPT !["stderr"] = @ - 1]
    /\ UNCHANGED <<pc, coordVars, stopChan, stopClosed, errChan, errClosed,
                   lineClosed, pipe, runVars, envVars, storeVars, reaperVars,
                   scanVars, histVars, panicked>>

\* either case with !ok: the channel is closed and drained
ScannerClosed(st) ==
    /\ Alive
    /\ pc["scanner"] = "select"
    /\ stderrOpen \/ stdoutOpen
    /\ lineChan[st] = 0 /\ lineClosed[st]
    /\ IF st = "stdout" THEN stdoutOpen' = FALSE /\ UNCHANGED stderrOpen
                        ELSE stderrOpen' = FALSE /\ UNCHANGED stdoutOpen
    /\ UNCHANGED <<pc, coordVars, chanVars, runVars, envVars, storeVars,
                   reaperVars, sLine, sIdx, sAddrs, wrote, histVars, panicked>>

\* the loop over s.Patterns reaches the next pattern whose match has a
\* group and writes the timeout file; with no such pattern the line is done
ScannerMatch ==
    /\ Alive
    /\ pc["scanner"] = "s_match"
    /\ LET i == NextMatch(sIdx, sLine)
       IN  IF i = 0
             THEN /\ pc' = [pc EXCEPT !["scanner"] = "select"]
                  /\ sLine' = <<>>
                  /\ sIdx' = 0
                  /\ UNCHANGED <<timeoutDir, wrote, touched>>
             ELSE LET addr == FindStringSubmatch(i, sLine)[2]
                  IN  /\ timeoutDir' = writeTimeoutFile(timeoutDir, addr, now)
                      /\ wrote' = [wrote EXCEPT ![addr] = now]
                      /\ touched' = TRUE
                      /\ sIdx' = i
                      /\ pc' = [pc EXCEPT !["scanner"] = "s_add"]
                      /\ UNCHANGED sLine
    /\ UNCHANGED <<coordVars, chanVars, runVars, envVars, addressFile, reaped,
                   reaperVars, stdoutOpen, stderrOpen, sAddrs, histVars,
                   panicked>>

\* addAddress, first half: the add hook, readAddressFile, slices.Contains
ScannerAdd ==
    /\ Alive
    /\ pc["scanner"] = "s_add"
    /\ \E ok \in HookResults(AddCommand) :
          LET addr == FindStringSubmatch(sIdx, sLine)[2]
              read == readAddressFile(addressFile)
          IN  IF ~ok THEN Return("scanner", "hook") /\ UNCHANGED <<sAddrs, sIdx>>
              ELSE IF read.err THEN Return("scanner", "corrupt") /\ UNCHANGED <<sAddrs, sIdx>>
              ELSE IF Contains(read.addrs, addr)
                THEN /\ sIdx' = sIdx + 1
                     /\ pc' = [pc EXCEPT !["scanner"] = "s_match"]
                     /\ UNCHANGED <<sAddrs, wret, early>>
              ELSE /\ sAddrs' = read.addrs
                   /\ pc' = [pc EXCEPT !["scanner"] = "s_write"]
                   /\ UNCHANGED <<sIdx, wret, early>>
    /\ UNCHANGED <<coordVars, chanVars, wg, started, ret, logged, envVars,
                   storeVars, reaperVars, stdoutOpen, stderrOpen, sLine, wrote,
                   histVars, panicked>>

\* an addAddress that puts the new address first
addAddressFirst(addrs, addr) == FileText(<<addr>> \o addrs)

\* what addAddress writes, given the addresses it read
addAddress(addrs, addr) == FileText(Append(addrs, addr))

\* addAddress, second half: the address is appended and the file rewritten
ScannerWrite ==
    /\ Alive
    /\ pc["scanner"] = "s_write"
    /\ addressFile' = addAddress(sAddrs, FindStringSubmatch(sIdx, sLine)[2])
    /\ touched' = TRUE
    /\ sIdx' = sIdx + 1
    /\ sAddrs' = <<>>
    /\ pc' = [pc EXCEPT !["scanner"] = "s_match"]
    /\ UNCHANGED <<coordVars, chanVars, runVars, envVars, timeoutDir, reaped,
                   reaperVars, stdoutOpen, stderrOpen, sLine, wrote,
                   histVars, panicked>>

\* the worker without the lines it handles, and the handling of a line of
\* either stream
scannerWorker ==
    \/ Register("scanner")
    \/ ScannerCommand \/ ScannerPipes \/ ScannerStart
    \/ Started("scanner")
    \/ ScannerLoopEnd
    \/ \E st \in Streams : ScannerClosed(st)
    \/ Deregister("scanner") \/ shutdown("scanner")
    \/ Finish("scanner")

stdoutLines ==
    \/ ReaderLine("rdOut")
    \/ ScannerLine \/ ScannerMatch \/ ScannerAdd \/ ScannerWrite

stderrLines == ReaderLine("rdErr") \/ ScannerErrLine

scanner == scannerWorker \/ stdoutLines \/ stderrLines

(***************************************************************************)
(* Run (which calls Start)                                                *)
(***************************************************************************)
GoPc(w) == CASE w = "reaper" -> "go_reaper"
             [] w = "scanner" -> "go_scanner"
             [] w = "handler" -> "go_handler"

\* go func() {...}(); the next statement is <-reaperStarted
Go(w) ==
    /\ Alive
    /\ pc["main"] = GoPc(w)
    /\ pc' = [pc EXCEPT !["main"] = WaitPc(w), ![w] = "register"]
    /\ UNCHANGED <<coordVars, chanVars, runVars, envVars, storeVars,
                   reaperVars, scanVars, histVars, panicked>>

\* s.started = true; return nil
SetStarted ==
    /\ Alive
    /\ pc["main"] = "set_started"
    /\ started' = TRUE
    /\ pc' = [pc EXCEPT !["main"] = "wg_wait"]
    /\ UNCHANGED <<coordVars, chanVars, wg, wret, early, ret, logged, envVars,
                   storeVars, reaperVars, scanVars, histVars, panicked>>

\* s.wg.Wait() returns when the counter is zero
\* a wait that returns while workers still run
WgWaitAtOnce ==
    /\ Alive
    /\ pc["main"] = "wg_wait"
    /\ pc' = [pc EXCEPT !["main"] = "drain"]
    /\ UNCHANGED <<coordVars, chanVars, runVars, envVars, storeVars,
                   reaperVars, scanVars, histVars, panicked>>

WgWait ==
    /\ Alive
    /\ pc["main"] = "wg_wait"
    /\ wg = 0
    /\ pc' = [pc EXCEPT !["main"] = "drain"]
    /\ UNCHANGED <<coordVars, chanVars, runVars, envVars, storeVars,
                   reaperVars, scanVars, histVars, panicked>>

\* one round of the select over the three result channels
Drain(w) ==
    /\ Alive
    /\ pc["main"] = "drain"
    /\ errChan[w] # <<>>
    /\ LET err == Head(errChan[w])
       IN  /\ errChan' = [errChan EXCEPT ![w] = Tail(@)]
           /\ IF err = "nil" THEN UNCHANGED <<ret, logged>>
              ELSE IF ret = NilRet
                THEN ret' = [from |-> w, err |-> err] /\ UNCHANGED logged
              ELSE logged' = logged \cup {[from |-> w, err |-> err]} /\ UNCHANGED ret
    /\ UNCHANGED <<pc, coordVars, stopChan, stopClosed, errClosed, lineChan,
                   lineClosed, pipe, wg, started, wret, early, envVars, storeVars,
                   reaperVars, scanVars, histVars, panicked>>

\* default: done = true; the three channels are closed and ret is returned
DrainEnd ==
    /\ Alive
    /\ pc["main"] = "drain"
    /\ \A w \in Workers : errChan[w] = <<>>
    /\ errClosed' = TRUE
    /\ pc' = [pc EXCEPT !["main"] = "done"]
    /\ UNCHANGED <<coordVars, stopChan, stopClosed, errChan, lineChan,
                   lineClosed, pipe, runVars, envVars, storeVars, reaperVars,
                   scanVars, histVars, panicked>>

Run ==
    \/ \E w \in Workers : Go(w)
    \/ SetStarted \/ WgWait
    \/ \E w \in Workers : Drain(w)
    \/ DrainEnd

(***************************************************************************)
(* The environment: signals, the tail subprocess, the clock.              *)
(***************************************************************************)
\* SIGINT or SIGTERM arrives once signal.Notify has registered the channels
Signal ==
    /\ Alive
    /\ pc["handler"] \in {"started", "select"}
    /\ ~sigPending
    /\ sigPending' = TRUE
    /\ UNCHANGED <<pc, coordVars, chanVars, runVars, tickPending, now,
                   gotSignal, storeVars, reaperVars, scanVars, histVars, panicked>>

\* the subprocess writes a line to one of its streams
TailEmit(st, max) ==
    /\ Alive
    /\ tailProc = "running"
    /\ emitted < max
    /\ emitted' = emitted + 1
    /\ pipe' = [pipe EXCEPT ![st] = @ + 1]
    /\ UNCHANGED <<pc, coordVars, stopChan, stopClosed, errChan, errClosed,
                   lineChan, lineClosed, runVars, envVars, storeVars,
                   reaperVars, scanVars, teardowns, killedBy, sent, stopCalls,
                   panicked>>

\* the subprocess exits on its own: tail -f only ends on an error or a
\* signal, so its exit status is not zero
TailExit ==
    /\ Alive
    /\ tailProc = "running"
    /\ tailProc' = "exited"
    /\ UNCHANGED <<pc, active, shutdownLock, tail, chanVars, runVars, envVars,
                   storeVars, reaperVars, scanVars, histVars, panicked>>

\* one tick interval passes: the ticker, if there is one, holds a tick
AdvanceTo(max) ==
    /\ Alive
    /\ now < max
    /\ now' = now + 1
    /\ tickPending' = (tickPending \/ TickerLive)
    /\ UNCHANGED <<pc, coordVars, chanVars, runVars, sigPending, gotSignal,
                   storeVars, reaperVars, scanVars, histVars, panicked>>

Advance == AdvanceTo(MaxTime)

(***************************************************************************)
(* Specifications.  All of them run the same program; they differ in what *)
(* the environment does.  The program parts that only act on an input     *)
(* (a line, a tick) are left out where the environment never gives it.    *)
(***************************************************************************)
Coordination ==
    \/ Run \/ reaperWorker \/ scannerWorker \/ handlerWorker
    \/ \E r \in Readers : readerWorker(r)

\* what the scheduler guarantees: a goroutine that can run does run, Stop
\* once called goes on, and a select with a ready case takes one
Fairness ==
    /\ WF_vars(Run)
    /\ WF_vars(reaper)
    /\ WF_vars(scanner)
    /\ WF_vars(handler)
    /\ \A r \in Readers : WF_vars(reader(r))
    /\ WF_vars(shutdown("stop") \/ StopClose)

\* Spec: Stop, signals, the subprocess ending and the clock; a silent log.
Next ==
    \/ Coordination \/ reaperSweep
    \/ Stop
    \/ Signal \/ HandlerSignal \/ TailExit \/ Advance

Spec == Init /\ [][Next]_vars

\* SpecTail: the subprocess writes lines and may end, signals; the clock
\* stands still and nobody calls Stop.
TailProgram == Coordination \/ HandlerSignal \/ stdoutLines \/ stderrLines

NextTail ==
    \/ TailProgram
    \/ Signal \/ TailExit
    \/ \E st \in Streams : TailEmit(st, MaxLines)

SpecTail == Init /\ [][NextTail]_vars

\* SpecStores: lines on the output stream and the clock, hence sweeps that
\* run while lines are handled; no signal, no Stop.
NextStores ==
    \/ Coordination \/ stdoutLines \/ reaperSweep
    \/ Advance
    \/ TailEmit("stdout", StoreLines)

SpecStores == Init /\ [][NextStores]_vars

\* SpecSweeps: as SpecStores, with fewer lines and a clock that runs long
\* enough for two sweeps.
NextSweeps ==
    \/ Coordination \/ stdoutLines \/ reaperSweep
    \/ AdvanceTo(SweepTime)
    \/ TailEmit("stdout", SweepLines)

SpecSweeps == Init /\ [][NextSweeps]_vars

\* SpecNew: construction, from the stores an earlier run, a crash or an
\* operator may have left; the timeout directory, created when it is
\* missing, is then empty.
Bogus == "not-an-address"
PriorTokens == Addrs \cup {Bogus}
PriorLine == { <<>> } \cup { <<tok>> : tok \in PriorTokens }
RECURSIVE TextOf(_)
TextOf(lines) ==
    IF lines = <<>> THEN <<>> ELSE Head(lines) \o <<NL>> \o TextOf(Tail(lines))
PriorFiles ==
    {NoAddressFile} \cup
    UNION { { TextOf(ls) : ls \in [1..n -> PriorLine] } : n \in 0..NewLines }
PriorRecords == {NoFile, Garbage, MarshalText(0), MarshalText(AddressTimeout + 1)}
PriorStores ==
    { [file |-> f, dir |-> [n \in Names |-> IF n \in Addrs THEN d[n] ELSE NoFile]] :
         f \in PriorFiles, d \in [Addrs -> PriorRecords] }

InitNew == InitWith("new", PriorStores)

\* s, err := NewScanner(...)
Construct ==
    /\ pc["main"] = "new"
    /\ LET new == NewScanner(addressFile, timeoutDir, now)
       IN  /\ addressFile' = new.file
           /\ timeoutDir' = new.dir
           /\ pc' = [pc EXCEPT !["main"] = IF new.err THEN "new_failed" ELSE "go_reaper"]
    /\ UNCHANGED <<coordVars, chanVars, runVars, envVars, reaped, touched,
                   reaperVars, scanVars, histVars, panicked>>

SpecNew == InitNew /\ [][Construct]_vars

\* SpecStops: Stop is called more than once, one call after the other; a
\* silent log, no signal, the clock stands still.
NextStops ==
    \/ Coordination
    \/ StopCallUpTo(StopTwice) \/ shutdown("stop") \/ StopClose

SpecStops == Init /\ [][NextStops]_vars

\* SpecCorrupt: the clock and the sweeps over a timeout directory in which
\* construction found, and left, a file that holds no timestamp; a silent
\* log, no signal, no Stop.
CorruptStores ==
    InitStores \cup
    { [file |-> FileText(<<A1, A2>>),
       dir |-> [EmptyDir EXCEPT ![A1] = MarshalText(AddressTimeout), ![A2] = Garbage]],
      [file |-> FileText(<<A1, A2>>),
       dir |-> [EmptyDir EXCEPT ![A1] = Garbage, ![A2] = MarshalText(AddressTimeout)]] }

InitCorrupt == InitWith("go_reaper", CorruptStores)

NextCorrupt ==
    \/ Coordination \/ reaperSweep
    \/ AdvanceTo(MaxTime)

SpecCorrupt == InitCorrupt /\ [][NextCorrupt]_vars

\* SpecShape: lines on the output stream on which a pattern's group
\* captures a text that is no address, and signals; the clock stands
\* still, no Stop.
ShapeLines == { <<Host, NoMatch, A2>>, <<NoMatch, Hit, A1>> }

NextShape ==
    \/ Coordination
    \/ ReaderLine("rdOut")
    \/ ScannerLineFrom(ShapeLines) \/ ScannerMatch \/ ScannerAdd \/ ScannerWrite
    \/ Signal \/ HandlerSignal
    \/ TailEmit("stdout", ShapeEmits)

SpecShape == Init /\ [][NextShape]_vars

\* LiveSignal: signals and lines on the output stream, under fairness.
NextSignal ==
    \/ Coordination \/ HandlerSignal \/ stdoutLines
    \/ Signal
    \/ TailEmit("stdout", LiveLines)

LiveSignal == Init /\ [][NextSignal]_vars /\ Fairness

\* LiveStop: one call of Stop, signals and the subprocess ending, under
\* fairness.
StopOnce == stopCalls = 0 /\ StopCall

NextStop ==
    \/ Coordination \/ HandlerSignal
    \/ StopOnce \/ shutdown("stop") \/ StopClose
    \/ Signal \/ TailExit

LiveStop == Init /\ [][NextStop]_vars /\ Fairness

(***************************************************************************)
(* Properties.                                                            *)
(***************************************************************************)
\* the call of shutdown by c has returned
ShutdownReturned(c) ==
    IF c = "stop" THEN stopCalls > 0 /\ pc["stop"] \in {"close", "idle"}
    ELSE pc[c] \in {"finish", "done"}

RangeOf(seq) == { seq[i] : i \in 1..Len(seq) }

\* C1: however many callers run shutdown (the three workers' exits, Stop),
\* the teardown runs exactly once: one caller enters the teardown body, the
\* subprocess is killed and waited for by that caller only and at most once,
\* each worker's stop channel receives at most one item and only from that
\* caller, and once any call has returned the teardown has been entered.
C1_TeardownOnce ==
    /\ Len(teardowns) <= 1
    /\ Len(killedBy) <= 1
    /\ RangeOf(killedBy) \subseteq RangeOf(teardowns)
    /\ \A w \in Workers :
          /\ Len(sent[w]) <= 1
          /\ RangeOf(sent[w]) \subseteq RangeOf(teardowns)
    /\ (\E c \in Callers : ShutdownReturned(c)) => Len(teardowns) = 1

\* all four callers have returned from shutdown, and the one teardown
\* killed the subprocess and notified a worker
C1_Witness ==
    /\ \A c \in Callers : ShutdownReturned(c)
    /\ Len(teardowns) = 1
    /\ Len(killedBy) = 1
    /\ \E w \in Workers : Len(sent[w]) = 1

\* C2: no send on a stop channel happens after the channel was closed: no
\* caller of shutdown stands at a send to a closed stop channel, and the
\* panic of such a send never occurs.
C2_NoSendAfterClose ==
    /\ panicked # "send on closed stop channel"
    /\ \A c \in Callers : \A w \in Workers :
          pc[c] = SndPc(w) => ~stopClosed[w]

\* a worker's exit ran the teardown and sent on a stop channel, Stop then
\* closed the channels, and the other workers' exits called shutdown again
C2_Witness ==
    /\ \A w \in Workers : stopClosed[w]
    /\ teardowns # <<>> /\ teardowns[1] # "stop"
    /\ \E w \in Workers : sent[w] # <<>>
    /\ \A w \in Workers : pc[w] = "done"

\* the places of a worker before its function returns
BodyPcs == {"idle", "register", "s_command", "s_pipes", "s_start", "started",
            "select", "r_scan", "r_remove", "r_write", "r_delete",
            "s_match", "s_add", "s_write"}

\* the worker function of w has returned (its deferred calls run or ran)
Returned(w) == pc[w] \notin BodyPcs

\* every worker goroutine has ended and Run has returned
AllExited == \A w \in Workers : pc[w] = "done"
RunReturned == pc["main"] = "done"

\* no goroutine of the program can take a step
Quiescent == Alive /\ ~ENABLED TailProgram

\* C3: after Start has completed, once a worker has exited the other two
\* exit and Run returns; stated on the states where the program can take no
\* further step: there, if some worker returned and none did so before
\* Start completed, all three workers have exited and Run has returned.
C3_ExitCascades ==
    (Quiescent /\ started /\ ~early /\ \E w \in Workers : Returned(w))
        => (AllExited /\ RunReturned)

\* the scanner returned a hook error while the stdout reader holds a line it
\* cannot send: all three workers exited, Run waits for the reader for ever
C3_Stuck ==
    /\ Quiescent /\ started /\ ~early /\ AllExited
    /\ pc["main"] = "wg_wait"
    /\ pc["rdOut"] = "send" /\ wg = 1

\* C5: when the subprocess cannot be spawned, Run returns a non-nil error
\* (Start does not block on the worker's startup signal); stated on the
\* states where the program can take no further step.
C5_SpawnFailureReturns ==
    (Quiescent /\ wret["scanner"] = "spawn")
        => (RunReturned /\ ret.err # "nil")

\* the spawn failed, the scanner has exited, and Start still waits for the
\* scanner's startup signal
C5_Stuck ==
    /\ Quiescent /\ wret["scanner"] = "spawn"
    /\ pc["scanner"] = "done"
    /\ pc["main"] = WaitPc("scanner")

\* nobody has asked for a shutdown
NoShutdownRequested ==
    /\ teardowns = <<>>
    /\ \A c \in Callers : pc[c] # "sh_lock"

\* C6: when the subprocess exits on its own with a non-zero status and
\* nobody has asked for a shutdown, the scanner returns a non-nil error, and
\* so does Run when the scanner's exit is what starts the teardown.
C6_TailExitIsError ==
    /\ (ExitedAlone /\ pc["scanner"] = "deregister"
            /\ NoShutdownRequested)
          => wret["scanner"] # "nil"
    /\ (ExitedAlone /\ RunReturned /\ teardowns = <<"scanner">>)
          => ret.err # "nil"

\* the subprocess ended by itself, the scanner's exit started the teardown,
\* and Run returned nil
C6_NilAfterExit ==
    /\ ExitedAlone /\ RunReturned
    /\ teardowns = <<"scanner">>
    /\ ret = NilRet

\* C7: when a hook command fails, the worker that ran it exits with the
\* error, the cascade stops the other workers and Run returns a non-nil
\* error; stated on the states where the program can take no further step.
C7_HookFailureReturns ==
    (Quiescent /\ \E w \in Workers : wret[w] = "hook")
        => (AllExited /\ RunReturned /\ ret.err # "nil")

\* the add hook failed for a line while two more lines were written: no
\* step is left and Run has not returned
C7_Stuck ==
    /\ Quiescent /\ wret["scanner"] = "hook"
    /\ emitted = 3 /\ pc["rdOut"] = "send"
    /\ AllExited /\ ~RunReturned

\* C4: Run returns only after all three workers have exited and delivered
\* their results; it returns nil exactly when every worker returned nil,
\* otherwise it returns the error of one of the workers, and every other
\* worker error was logged, none dropped.
C4_RunAggregates ==
    RunReturned =>
        /\ AllExited
        /\ \A w \in Workers : errChan[w] = <<>>
        /\ (ret.err = "nil") <=> (\A w \in Workers : wret[w] = "nil")
        /\ ret.err # "nil" => (ret.from \in Workers /\ wret[ret.from] = ret.err)
        /\ \A w \in Workers :
              wret[w] # "nil" =>
                  (ret.from = w \/ [from |-> w, err |-> wret[w]] \in logged)

\* Run returned one worker's error and logged another worker's
C4_Witness ==
    /\ RunReturned
    /\ ret.err # "nil"
    /\ logged # {}

\* what the cascade brings about: the subprocess is not running, the three
\* workers have exited and Run has returned nil
CleanExit ==
    /\ AllExited /\ RunReturned /\ ret = NilRet
    /\ tailProc # "running"

SomeWorkerFailed == \E w \in Workers : wret[w] # "nil"

\* C8: when the handler receives SIGINT or SIGTERM it returns nil, and
\* unless a worker fails the cascade ends the subprocess and the other two
\* workers and Run returns nil.
C8_SignalExitsCleanly ==
    /\ [](gotSignal => wret["handler"] = "nil")
    /\ (gotSignal ~> (CleanExit \/ SomeWorkerFailed))

\* a signal was received after lines were handled, and all ended cleanly
C8_Witness ==
    /\ gotSignal /\ CleanExit
    /\ emitted > 0
    /\ teardowns = <<"handler">>

\* C9: when Stop is called after Start has completed, the subprocess is
\* ended, all three workers exit and Run returns nil.
C9_StopExitsCleanly ==
    (pc["stop"] = "sh_lock" /\ started) ~> CleanExit

\* Stop called after Start ran the teardown and closed the channels, and
\* all ended cleanly
C9_Witness ==
    /\ CleanExit /\ started
    /\ teardowns = <<"stop">>
    /\ \A w \in Workers : stopClosed[w]

\* number of times a is listed
Count(addrs, a) == Cardinality({ i \in 1..Len(addrs) : addrs[i] = a })

\* the scanner step that ends the handling of a line without error
LineDone == pc["scanner"] = "s_match" /\ pc'["scanner"] = "select"

\* every address the line's patterns captured has a timeout file holding
\* the instant of its write plus the timeout, and is listed exactly once
Recorded ==
    \A a \in Addrs :
        wrote[a] >= 0 =>
            /\ timeoutDir[a] = MarshalText(wrote[a] + AddressTimeout)
            /\ ~readAddressFile(addressFile).err
            /\ Count(readAddressFile(addressFile).addrs, a) = 1

Captured == FindStringSubmatch(sIdx, sLine)[2]

\* the scanner step that writes a timeout file, and the step that ends
\* addAddress
ScannerRefresh == pc["scanner"] = "s_match" /\ pc'["scanner"] = "s_add"
AddEnds == pc["scanner"] = "s_add" /\ pc'["scanner"] # "s_add"

\* no address is listed twice
NoDuplicates ==
    \A a \in Addrs : Count(readAddressFile(addressFile).addrs, a) <= 1

\* C11: a match of an address writes its record as now + timeout, never
\* earlier than the record it replaces; addAddress of a listed address
\* leaves the address file as it is, so that no address is ever listed
\* twice however often it is matched.
C11_RefreshIdempotent ==
    /\ []NoDuplicates
    /\ [][ /\ ScannerRefresh =>
                /\ timeoutDir'[Captured'] = MarshalText(now + AddressTimeout)
                /\ ~UnmarshalText(timeoutDir[Captured']).err =>
                       timeoutDir'[Captured'].t >= timeoutDir[Captured'].t
           /\ (AddEnds /\ Listed(addressFile, Captured)) =>
                /\ addressFile' = addressFile
                /\ pc'["scanner"] # "s_write"
         ]_vars

\* the listed address was matched again one tick later: its record moved
\* on and the address file is what it was
C11_Witness ==
    /\ pc["scanner"] = "select" /\ Alive
    /\ wrote[A1] = 1
    /\ timeoutDir[A1] = MarshalText(1 + AddressTimeout)
    /\ addressFile = FileText(<<A1>>)
    /\ ~reaped

\* the reaper step that ends a sweep without a fatal error
SweepEnd == pc["reaper"] \in {"r_scan", "r_delete"} /\ pc'["reaper"] = "select"

\* C12 as stated: when a sweep ends without a fatal error, every address
\* whose record's expiration was less than or equal to the time of the tick
\* is not listed and has no timeout file.
C12_DueSwept ==
    [][SweepEnd =>
         \A a \in atTick.due :
            ~Listed(addressFile', a) /\ timeoutDir'[a] = NoFile]_vars

\* C12, amended: the same, provided the scanner wrote neither a timeout
\* file nor the address file between the tick and the end of the sweep.
C12_DueSweptUntouched ==
    [][(SweepEnd /\ ~touched) =>
         \A a \in atTick.due :
            ~Listed(addressFile', a) /\ timeoutDir'[a] = NoFile]_vars

\* no line was ever written, the clock reached the expiration of the listed
\* address exactly, and the sweep took it out of both stores
C12_Witness ==
    /\ pc["reaper"] = "select" /\ Alive
    /\ emitted = 0 /\ now = AddressTimeout
    /\ addressFile = FileText(<<>>)
    /\ timeoutDir[A1] = NoFile

\* the reaper steps that take an address out of the address file and that
\* delete its timeout file
ReaperRemoves ==
    /\ pc["reaper"] = "r_write" /\ pc'["reaper"] = "r_delete"
    /\ addressFile' # addressFile
ReaperDeletes ==
    /\ pc["reaper"] = "r_delete"
    /\ timeoutDir[Head(expiredAddrs)] # NoFile
    /\ timeoutDir'[Head(expiredAddrs)] = NoFile

\* the record of a holds an expiration later than now
InFuture(a) == timeoutDir[a].k = "rfc3339" /\ timeoutDir[a].t > now

\* C13: the reaper never removes an address from the address file, nor
\* deletes its timeout file, while the record's expiration is in the future
\* at that moment.
C13_NeverReapsLive ==
    [][(ReaperRemoves \/ ReaperDeletes) => ~InFuture(Head(expiredAddrs))]_vars

\* the record the scanner wrote for the line it is handling, not yet due,
\* is gone
C13_LiveRecordDeleted ==
    /\ Alive
    /\ wrote[A1] >= 0 /\ wrote[A1] + AddressTimeout > now
    /\ timeoutDir[A1] = NoFile

\* C14: an address that is listed without a record when a sweep starts is
\* no longer so when that sweep ends: it has a record again or has left the
\* list, the log tail worker writing nothing in between.
C14_OrphanSwept ==
    [][(SweepEnd /\ ~touched) =>
          \A a \in atTick.orphans : a \notin Orphans(addressFile', timeoutDir')]_vars

C14_OrphanStays ==
    /\ pc["reaper"] = "select" /\ Alive
    /\ now = SweepTime /\ ~tickPending
    /\ pc["scanner"] = "select" /\ emitted = SweepLines /\ pipe["stdout"] = 0
    /\ Orphans(addressFile, timeoutDir) # {}

\* C15: when removeAddress finds that the address is not in the address
\* file it returns without an error and without writing the file, and the
\* reaper goes on to delete the record of that address.
NotPresent == pc["reaper"] = "r_write" /\ ~Contains(rAddrs, Head(expiredAddrs))
RemoveEnds == pc["reaper"] = "r_write" /\ pc'["reaper"] # "r_write"
DeleteEnds == pc["reaper"] = "r_delete" /\ pc'["reaper"] # "r_delete"
Constructed == pc["main"] = "new" /\ pc'["main"] = "go_reaper"
C16_ConstructionHeals ==
    [][Constructed =>
         \A a \in Addrs :
            /\ Listed(addressFile', a) => timeoutDir'[a] # NoFile
            /\ timeoutDir[a] # NoFile => timeoutDir'[a] = timeoutDir[a]
            /\ (timeoutDir[a] = NoFile /\ timeoutDir'[a] # NoFile) =>
                  /\ Listed(addressFile', a)
                  /\ timeoutDir'[a] = MarshalText(now + AddressTimeout)]_vars

C16_Witness ==
    /\ pc["main"] = "go_reaper"
    /\ addressFile = FileText(<<A1, A2>>)
    /\ timeoutDir[A1] = MarshalText(AddressTimeout + 1)
    /\ timeoutDir[A2] = MarshalText(now + AddressTimeout)

\* C17: when a line of the address file that is not blank is not an
\* address, NewScanner returns an error and no Scanner, and the timeout
\* directory is as it was.
BadLine(text) ==
    /\ text # NoAddressFile
    /\ \E i \in 1..Len(text) : text[i] \notin Addrs \cup {NL}
C17_CorruptListIsFatal ==
    [][(pc["main"] = "new" /\ BadLine(addressFile) /\ pc'["main"] # "new") =>
          (pc'["main"] = "new_failed" /\ timeoutDir' = timeoutDir)]_vars

C17_Witness ==
    /\ pc["main"] = "new_failed"
    /\ addressFile = <<A1, NL, Bogus, NL>>
    /\ timeoutDir = EmptyDir

\* C18: no stop channel is closed a second time, however often Stop is
\* called and whichever workers have exited.
C18_NoDoubleClose == panicked # "close of closed channel"

C18_SecondStopPanics ==
    /\ panicked = "close of closed channel"
    /\ stopCalls = 2 /\ pc["stop"] = "close"
    /\ \A w \in Workers : stopClosed[w]

\* C19: when the teardown body starts, every worker that has been launched
\* and has not returned is in the active set, and if the log tail worker is
\* one of them its subprocess handle is set and holds a process.
Launched(w) == pc[w] \in BodyPcs \ {"idle"}
TeardownStarts == teardowns' # teardowns
C19_TeardownSeesAll ==
    [][TeardownStarts =>
         /\ \A w \in Workers : Launched(w) => w \in active
         /\ Launched("scanner") => (tail # "nil" /\ HasProcess)]_vars

\* the teardown is over, the handler registered after it and was sent
\* nothing: it waits for a signal
C19_HandlerUnnotified ==
    /\ Quiescent /\ ~sigPending
    /\ teardowns # <<>> /\ shutdownLock = "none"
    /\ pc["handler"] = "select" /\ "handler" \in active
    /\ sent["handler"] = <<>>

\* C20: once the scanner's stop channel holds a notification or is closed,
\* the log tail worker exits; stated on the states where no goroutine of
\* the program, the caller of Stop included, can take a further step.
ProgramStep == TailProgram \/ reaperSweep \/ shutdown("stop") \/ StopClose
ScannerTold == stopChan["scanner"] > 0 \/ stopClosed["scanner"]
C20_StopEndsScanner ==
    (Alive /\ ~ENABLED ProgramStep /\ ScannerTold) => Returned("scanner")

\* the teardown ran while the scanner was starting up: the notification is
\* in the channel, the subprocess runs, the scanner waits for lines
C20_ScannerDeaf ==
    /\ Alive /\ ~ENABLED ProgramStep
    /\ stopChan["scanner"] = 1
    /\ pc["scanner"] = "select"
    /\ tailProc = "running" /\ killedBy = <<>>

\* C21: a stop notification is sent only to a worker that is in the active
\* set when the send happens; a worker that has deregistered is sent none.
C21_SendOnlyToActive ==
    [][\A w \in Workers : sent'[w] # sent[w] => w \in active]_vars

\* the teardown found the handler in the active set, the handler has
\* deregistered since, and the send is the caller's next statement
C21_SendToDeregistered ==
    /\ Alive
    /\ \E c \in Callers : pc[c] = SndPc("handler")
    /\ "handler" \notin active /\ pc["handler"] = "sh_lock"
    /\ stopChan["handler"] = 0 /\ ~stopClosed["handler"]

\* C22: each stop channel is sent to at most once, and a caller of
\* shutdown that stands at a send finds the channel empty: the send does
\* not block, whether or not the worker ever receives.
C22_OneSendNeverBlocks ==
    \A w \in Workers :
       /\ Len(sent[w]) <= 1
       /\ stopChan[w] <= Len(sent[w])
       /\ \A c \in Callers : pc[c] = SndPc(w) =>
             (shutdownLock = c /\ sent[w] = <<>> /\ stopChan[w] < StopCap)

\* all three were notified, the teardown is over, and the scanner's
\* notification is still in its channel
C22_Witness ==
    /\ \A w \in Workers : Len(sent[w]) = 1
    /\ shutdownLock = "none" /\ Len(teardowns) = 1
    /\ stopChan["scanner"] = StopCap
    /\ pc["reaper"] = "done" /\ pc["handler"] = "done"

\* C23: when the teardown body starts and the subprocess handle is set and
\* holds a process, the process is killed and waited for in that step, no
\* stop notification has been sent before it, and no worker's result
\* changes; sends are made by the caller that runs the teardown; and when
\* the teardown of a worker that returned after Start had completed ends,
\* every worker still in the active set has been sent its notification,
\* whether the kill found the process running or already gone.
TeardownEnds ==
    /\ teardowns # <<>> /\ shutdownLock = Head(teardowns)
    /\ shutdownLock' = "none"
C23_KillBeforeNotify ==
    [][ /\ TeardownStarts =>
              /\ \A w \in Workers : sent[w] = <<>> /\ sent'[w] = <<>>
              /\ (tail # "nil" /\ tailProc \in {"running", "exited"}) =>
                    /\ tailProc' \in {"killed", "waited"}
                    /\ Len(killedBy') = Len(killedBy) + 1
              /\ wret' = wret /\ panicked' = panicked
        /\ \A w \in Workers : sent'[w] # sent[w] =>
              (teardowns # <<>> /\ shutdownLock = Head(teardowns))
        /\ (TeardownEnds /\ ~early /\ Head(teardowns) \in Workers) =>
              /\ \A w \in Workers : w \in active => sent[w] # <<>>
              /\ wret' = wret ]_vars

\* the subprocess had ended when the scanner ran the teardown: the kill
\* found no running process, and the reaper and the handler were notified
C23_Witness ==
    /\ teardowns = <<"scanner">> /\ shutdownLock = "none" /\ ~early
    /\ killedBy = <<"scanner">> /\ tailProc = "waited"
    /\ sent["reaper"] = <<"scanner">> /\ sent["handler"] = <<"scanner">>
    /\ wret["scanner"] = "nil"

\* C24: for each line the patterns are tried in the configured order: the
\* handling starts at the first pattern, the scanner refreshes the record
\* of what a pattern captured exactly when that pattern is the next one
\* that matches the line with a group, goes on with the pattern after it
\* once addAddress has returned, and ends the line only when no later
\* pattern matches with a group; a pattern without a group is passed by.
Triggers(j, line) == Patterns[j] /\ line[j] # NoMatch
LineTaken == pc["scanner"] = "select" /\ pc'["scanner"] = "s_match"
AddReturns == pc["scanner"] \in {"s_add", "s_write"} /\ pc'["scanner"] = "s_match"
C24_AllPatternsInOrder ==
    [][ /\ LineTaken => sIdx' = 1
        /\ ScannerRefresh =>
              /\ sIdx' \in sIdx..Len(Patterns) /\ Triggers(sIdx', sLine)
              /\ \A j \in sIdx..(sIdx' - 1) : ~Triggers(j, sLine)
              /\ timeoutDir'[sLine[sIdx']] = MarshalText(now + AddressTimeout)
              /\ sLine' = sLine
        /\ AddReturns => (sIdx' = sIdx + 1 /\ sLine' = sLine)
        /\ LineDone => \A j \in sIdx..Len(Patterns) : ~Triggers(j, sLine) ]_vars

\* the line on which the first and the third pattern capture an address
\* and the second, which has no group, matches too: both addresses have
\* their record and the one that was not listed has been appended
C24_Witness ==
    /\ pc["scanner"] = "select" /\ Alive /\ emitted = 1 /\ sLine = <<>>
    /\ wrote[A1] >= 0 /\ wrote[A2] >= 0
    /\ addressFile = FileText(<<A1, A2>>)
    /\ \A a \in Addrs : timeoutDir[a] # NoFile

\* C25: the reaper takes its stop notification, and returns nil, only at
\* its select with no sweep under way; a sweep is left only with an error
\* or with its whole batch handled, each address of the batch leaving it
\* when its record is deleted.
InSweep == pc["reaper"] \in {"r_scan", "r_remove", "r_write", "r_delete"}
ReaperReturns == pc["reaper"] \in BodyPcs /\ pc'["reaper"] \notin BodyPcs
C25_StopBetweenTicks ==
    [][ /\ (stopChan'["reaper"] < stopChan["reaper"]
                \/ (ReaperReturns /\ wret'["reaper"] = "nil")) =>
              (pc["reaper"] = "select" /\ entries = <<>> /\ expiredAddrs = <<>>)
        /\ (InSweep /\ ReaperReturns) => wret'["reaper"] # "nil"
        /\ (InSweep /\ pc'["reaper"] = "select") =>
              (entries' = <<>> /\ expiredAddrs' = <<>>)
        /\ (expiredAddrs # <<>> /\ expiredAddrs' # expiredAddrs
                /\ Len(expiredAddrs') <= Len(expiredAddrs)) =>
              /\ expiredAddrs' = Tail(expiredAddrs)
              /\ timeoutDir'[Head(expiredAddrs)] = NoFile ]_vars

\* the teardown is over and its notification is in the reaper's channel,
\* while the reaper has removed the last address of its batch and is about
\* to delete the record
C25_Witness ==
    /\ Alive /\ pc["reaper"] = "r_delete" /\ Len(expiredAddrs) = 1
    /\ stopChan["reaper"] = 1 /\ teardowns # <<>> /\ shutdownLock = "none"
    /\ ~Listed(addressFile, Head(expiredAddrs))
    /\ timeoutDir[Head(expiredAddrs)] # NoFile

\* C26: when the scan of a sweep reaches a file that holds no timestamp,
\* the reaper returns an error; up to there the sweep has changed neither
\* store, and the reaper changes neither afterwards, so the expired
\* addresses the scan had collected stay listed and keep their record.
Unparsable ==
    /\ pc["reaper"] = "r_scan" /\ entries # <<>>
    /\ timeoutDir[Head(entries)].k = "garbage"
C26_CorruptRecordIsFatal ==
    [][ /\ (Unparsable /\ <<pc["reaper"], entries>>' # <<pc["reaper"], entries>>) =>
              (ReaperReturns /\ wret'["reaper"] = "corrupt")
        /\ (pc["reaper"] \in {"select", "r_scan"} \/ wret["reaper"] = "corrupt") =>
              (addressFile' = addressFile /\ timeoutDir' = timeoutDir) ]_vars

\* the scan found the record of A1 expired and then the unparsable file of
\* A2: the reaper has ended with the error, A1 is listed and has its record
C26_Witness ==
    /\ pc["reaper"] = "done" /\ wret["reaper"] = "corrupt"
    /\ expiredAddrs = <<A1>> /\ now = AddressTimeout
    /\ Listed(addressFile, A1) /\ timeoutDir[A1] = MarshalText(AddressTimeout)
    /\ timeoutDir[A2] = Garbage

\* C27: when the add hook fails for the address a pattern captured, the
\* record of that address holds the expiration the scanner has just
\* written and stays as it is, the address file is not written, and the
\* scanner returns the error; it writes neither store afterwards.
HookFails ==
    /\ pc["scanner"] = "s_add"
    /\ pc'["scanner"] = "deregister" /\ wret'["scanner"] = "hook"
C27_HookFailureKeepsRecord ==
    [][ /\ HookFails =>
              /\ wrote[Captured] = now
              /\ timeoutDir[Captured] = MarshalText(now + AddressTimeout)
              /\ timeoutDir' = timeoutDir
              /\ addressFile' = addressFile
        /\ wret["scanner"] = "hook" =>
              /\ timeoutDir' = timeoutDir /\ addressFile' = addressFile
              /\ wret'["scanner"] = "hook" ]_vars

\* the hook failed for A2, which was not listed: the scanner has ended
\* with the error, A2 has its record and is not listed
C27_Witness ==
    /\ pc["scanner"] = "done" /\ wret["scanner"] = "hook"
    /\ sLine = <<A2, Hit, A1>> /\ sIdx = 1 /\ wrote[A1] = -1
    /\ timeoutDir[A2] = MarshalText(wrote[A2] + AddressTimeout)
    /\ addressFile = FileText(<<A1>>)

\* C28: a write of the address file by an add or a remove takes a
\* well-formed file to a well-formed file: one address per line, each line
\* ended by a newline, no blank line, no address twice; the file left when
\* the last address is removed included.
WellFormed(text) ==
    /\ Len(text) % 2 = 0
    /\ \A i \in 1..Len(text) :
          IF i % 2 = 1 THEN text[i] \in Addrs ELSE text[i] = NL
    /\ \A i, j \in 1..Len(text) : (i < j /\ text[i] = text[j]) => text[i] = NL
C28_WritesWellFormed ==
    [][(addressFile' # addressFile /\ WellFormed(addressFile)) =>
          WellFormed(addressFile')]_vars

\* the reaper has removed the only address: the file is one empty line
C28_BlankLineLeft ==
    /\ addressFile = <<NL>> /\ reaped
    /\ pc["reaper"] \in {"r_delete", "select"}

\* C29: whatever the address file holds is an address or a newline, so
\* that readAddressFile reads back without an error what the scanner
\* wrote, and the scanner never returns the corrupt-store error.
C29_WrittenListReadable ==
    /\ \A i \in 1..Len(addressFile) : addressFile[i] \in Addrs \cup {NL}
    /\ wret["scanner"] # "corrupt"

\* the scanner appended what the first pattern captured, which is no
\* address, and its next addAddress failed on reading the file back
C29_OwnWriteUnreadable ==
    /\ pc["scanner"] = "done" /\ wret["scanner"] = "corrupt"
    /\ addressFile = FileText(<<A1, Host>>)
    /\ timeoutDir[Host] = MarshalText(now + AddressTimeout)

\* the addresses listed before and after a step, and a list without a
\* given address
ListedNow == readAddressFile(addressFile).addrs
ListedNext == readAddressFile(addressFile').addrs
Without(addrs, a) == SelectSeq(addrs, LAMBDA x : x # a)
ScannerAppends == pc["scanner"] = "s_write" /\ pc'["scanner"] # "s_write"
ReaperDrops ==
    /\ pc["reaper"] = "r_write" /\ pc'["reaper"] # "r_write"
    /\ Contains(rAddrs, Head(expiredAddrs))

\* C30 as stated: the write that ends an add leaves the listed addresses
\* as they were, followed by the new one; the write that ends a remove
\* leaves them as they were, without the removed one; neither changes a
\* timeout file.
C30_ExactEntry ==
    [][ /\ ScannerAppends =>
              (ListedNext = Append(ListedNow, Captured) /\ timeoutDir' = timeoutDir)
        /\ ReaperDrops =>
              /\ ListedNext = Without(ListedNow, Head(expiredAddrs))
              /\ timeoutDir' = timeoutDir ]_vars

\* C30, amended: the same, provided the file still lists what the add or
\* the remove read from it.
C30_ExactEntryUndisturbed ==
    [][ /\ (ScannerAppends /\ sAddrs = ListedNow) =>
              (ListedNext = Append(ListedNow, Captured) /\ timeoutDir' = timeoutDir)
        /\ (ReaperDrops /\ rAddrs = ListedNow) =>
              /\ ListedNext = Without(ListedNow, Head(expiredAddrs))
              /\ timeoutDir' = timeoutDir ]_vars

\* A2 was appended after A1, then A1 was removed: A2 is listed and has its
\* record, and the line's last pattern has yet to be handled
C30_Witness ==
    /\ Alive /\ pc["reaper"] = "r_delete" /\ expiredAddrs = <<A1>>
    /\ pc["scanner"] = "s_match" /\ sIdx = 2 /\ emitted = 1
    /\ addressFile = FileText(<<A2>>)
    /\ timeoutDir[A2] = MarshalText(wrote[A2] + AddressTimeout)
    /\ timeoutDir[A1] = MarshalText(AddressTimeout)

\* C31: once the subprocess has been killed both stream readers end, also
\* when the scanner has returned and no longer receives from the line
\* channels, so that the readers do not keep Run in s.wg.Wait(); stated on
\* the states where the program can take no further step.
C31_ReadersEnd ==
    (Quiescent /\ tailProc = "killed") => \A r \in Readers : pc[r] = "done"

\* the add hook failed while a line was in the stdout channel and the
\* reader held the next one: the subprocess was killed, the scanner has
\* ended, the reader is blocked in its send and Run in s.wg.Wait()
C31_ReaderBlocked ==
    /\ Quiescent /\ killedBy = <<"scanner">> /\ tailProc = "killed"
    /\ pc["scanner"] = "done" /\ wret["scanner"] = "hook"
    /\ pc["rdOut"] = "send" /\ lineChan["stdout"] = LineCap
    /\ pc["rdErr"] = "done"
    /\ pc["main"] = "wg_wait" /\ wg = 1

\* C32: the log tail worker never uses the subprocess handle after a
\* teardown has reset it to nil: in no interleaving of a teardown with the
\* startup sequence (create command, open pipes, start) does the worker
\* dereference the cleared handle, and no subprocess is left running once
\* the only teardown is over and the program can take no further step.
C32_HandleNotUsedCleared ==
    /\ panicked # "nil pointer dereference"
    /\ (Alive /\ ~ENABLED ProgramStep /\ teardowns # <<>> /\ shutdownLock = "none")
          => tailProc # "running"

\* the teardown ran between exec.Command and the next use of s.tail: it saw
\* a command without a process, killed nothing and cleared the handle, and
\* the worker then called a method on the nil handle
C32_ClearedHandleUsed ==
    /\ panicked = "nil pointer dereference"
    /\ pc["scanner"] \in {"s_pipes", "s_start"}
    /\ tail = "nil" /\ tailProc = "created"
    /\ teardowns # <<>> /\ killedBy = <<>>

====
